---- MODULE Spec2Model ----
(***************************************************************************)
(* A model of imapdelete.py: the run of main() against one IMAP session.   *)
(* Header text is modelled as sequences of tokens (a token is a piece of   *)
(* text that the regular expressions of the program never split), a raw    *)
(* header block as a sequence of physical lines.                           *)
(***************************************************************************)
EXTENDS Integers, Sequences, FiniteSets, TLC

\* Largest mailbox (number of messages in the selected folder) explored.
MaxMsgs == 2
\* Longest match list explored by the grouping specification.
MaxRecs == 3

(***************************************************************************)
(* Text helpers                                                            *)
(***************************************************************************)

\* str.lower() / re.IGNORECASE on one token.
Lower(t) ==
    CASE t = "From" -> "from"
      [] t = "FROM" -> "from"
      [] t = "X-" -> "x-"
      [] t = "Subject" -> "subject"
      [] t = "Date" -> "date"
      [] t = "Invoice" -> "invoice"
      [] t = "INVOICE" -> "invoice"
      [] t = "Hello" -> "hello"
      [] t = "Fwd" -> "fwd"
      [] t = "BILLING@EXAMPLE.COM" -> "billing@example.com"
      [] t = "S" -> "s"
      [] t = "N" -> "n"
      [] t = "A" -> "a"
      [] OTHER -> t

LowerSeq(s) == [i \in 1..Len(s) |-> Lower(s[i])]

\* TRUE iff pat occurs in s at offset i (1-based), ignoring case.
MatchAt(s, pat, i) ==
    /\ i >= 1
    /\ i + Len(pat) - 1 <= Len(s)
    /\ \A j \in 1..Len(pat) : Lower(s[i + j - 1]) = Lower(pat[j])

\* The offsets at which pat occurs in s.
Occurrences(s, pat) == {i \in 1..(Len(s) + 1) : MatchAt(s, pat, i)}

Min(S) == CHOOSE x \in S : \A y \in S : x <= y

\* email.header.decode_header on one word: an RFC 2047 encoded word is
\* decoded to its text, anything else is returned unchanged.
DecodeWord(t) ==
    CASE t = "=?utf-8?q?Invoice?=" -> "Invoice"
      [] OTHER -> t

decode_mime_words(s) == [i \in 1..Len(s) |-> DecodeWord(s[i])]

\* email.utils.parsedate_to_datetime(value).strftime('%Y-%m-%d %H:%M:%S'):
\* the canonical form of a date token, or "" when parsing raises.
CanonicalDate(t) ==
    CASE t = "Mon, 04 Mar 2024 10:00:00 +0000" -> "2024-03-04 10:00:00"
      [] t = "Thu, 01 Feb 2024 09:00:00 +0000" -> "2024-02-01 09:00:00"
      [] OTHER -> ""

\* email.utils.parsedate_tz(Date)[0:2] as <<year, month>>, <<>> when the
\* header is missing or does not parse.
parsedate_tz(t) ==
    CASE t = "Mon, 04 Mar 2024 10:00:00 +0000" -> <<2024, 3>>
      [] t = "Thu, 01 Feb 2024 09:00:00 +0000" -> <<2024, 2>>
      [] OTHER -> <<>>

(***************************************************************************)
(* Header Model: get_header_value                                          *)
(***************************************************************************)

\* The first line of header_data in which pat occurs, 0 when none does.
FirstLine(header_data, pat) ==
    LET hits == {k \in 1..Len(header_data) : Occurrences(header_data[k], pat) # {}}
    IN  IF hits = {} THEN 0 ELSE Min(hits)

\* re.search(f'{header_name}: (.*)', header_data, IGNORECASE | MULTILINE):
\* the leftmost occurrence of "<name>: " anywhere in the block (the pattern
\* is not anchored to the start of a line), group(1) running to the end of
\* that physical line; the value is MIME-decoded, and a Date value that
\* parses is reformatted.  No occurrence gives the empty value.
get_header_value(header_data, header_name) ==
    LET pat == header_name \o <<": ">>
        k == FirstLine(header_data, pat)
    IN  IF k = 0 THEN <<>>
        ELSE LET line == header_data[k]
                 at == Min(Occurrences(line, pat))
                 value == decode_mime_words(SubSeq(line, at + Len(pat), Len(line)))
             IN  IF LowerSeq(header_name) = <<"date">>
                    /\ Len(value) = 1
                    /\ CanonicalDate(value[1]) # ""
                 THEN <<CanonicalDate(value[1])>>
                 ELSE value

\* The value of the header field called name, as a mail parser reads it:
\* the text after "<name>: " of the first line that starts with it.
FieldValue(header_data, name) ==
    LET pat == name \o <<": ">>
        hits == {k \in 1..Len(header_data) : MatchAt(header_data[k], pat, 1)}
    IN  IF hits = {} THEN <<>>
        ELSE LET line == header_data[Min(hits)]
             IN  SubSeq(line, Len(pat) + 1, Len(line))

(***************************************************************************)
(* Filter Evaluator: the three conditions of main()'s search loop          *)
(***************************************************************************)

\* A regex supplied by the operator: lit is the literal text it searches
\* for, ok is FALSE when re.compile rejects it (re.error is raised).
Rx(lit) == [ok |-> TRUE, lit |-> lit]
BadRx == [ok |-> FALSE, lit |-> <<"(">>]
NoRx == [ok |-> TRUE, lit |-> <<>>]

\* re.search(regex, value, re.IGNORECASE) for a well-formed regex.
re_search(regex, value) == Occurrences(value, regex.lit) # {}

\* One header predicate (header, regex) on a header block: "raise" when
\* the regex is malformed, else "yes" / "no".
PredEval(header_data, pred) ==
    IF ~pred.regex.ok THEN "raise"
    ELSE IF re_search(pred.regex, get_header_value(header_data, pred.header))
         THEN "yes" ELSE "no"

\* all(... for header, regex in and_headers), evaluated left to right and
\* stopping at the first predicate that does not match.
RECURSIVE and_match(_, _, _)
and_match(header_data, and_headers, i) ==
    IF i > Len(and_headers) THEN "yes"
    ELSE LET r == PredEval(header_data, and_headers[i])
         IN  IF r = "yes" THEN and_match(header_data, and_headers, i + 1) ELSE r

\* A mutation of or_match: an empty OR list rejects.
RECURSIVE or_match_emptyfalse(_, _, _)
or_match_emptyfalse(header_data, or_headers, i) ==
    IF i > Len(or_headers) THEN "no"
    ELSE LET r == PredEval(header_data, or_headers[i])
         IN  IF r = "no" THEN or_match_emptyfalse(header_data, or_headers, i + 1) ELSE r

\* any(... for header, regex in or_headers) if or_headers else True.
RECURSIVE or_match(_, _, _)
or_match(header_data, or_headers, i) ==
    IF Len(or_headers) = 0 THEN "yes"
    ELSE IF i > Len(or_headers) THEN "no"
    ELSE LET r == PredEval(header_data, or_headers[i])
         IN  IF r = "no" THEN or_match(header_data, or_headers, i + 1) ELSE r

\* The decision of one iteration of the search loop once the header block
\* is decoded: "match" (appended to filtered_msgs), "nomatch" (non_matching
\* is incremented) or "raise" (an exception reaches the except clause).
FilterDecision(header_data, a) ==
    LET am == and_match(header_data, a.and_headers, 1)
    IN  IF am = "raise" THEN "raise"
        ELSE LET om == or_match(header_data, a.or_headers, 1)
             IN  IF om = "raise" THEN "raise"
                 ELSE IF am = "yes" /\ om = "yes"
                      THEN IF ~a.has_regex THEN "match"
                           ELSE IF ~a.regex.ok THEN "raise"
                           ELSE IF re_search(a.regex, get_header_value(header_data, <<"Subject">>))
                                THEN "match" ELSE "nomatch"
                      ELSE "nomatch"

(***************************************************************************)
(* Grouping & Selection: show_grouped_subjects_and_select                  *)
(***************************************************************************)

\* filtered_msgs holds tuples <<msg_id, subject, date>>.
\* The keys of subject_count in insertion (first-seen) order.
RECURSIVE SubjectKeys(_, _, _)
SubjectKeys(filtered, i, acc) ==
    IF i > Len(filtered) THEN acc
    ELSE LET s == filtered[i][2]
         IN  IF \E k \in 1..Len(acc) : acc[k] = s
             THEN SubjectKeys(filtered, i + 1, acc)
             ELSE SubjectKeys(filtered, i + 1, Append(acc, s))

\* subject_count[subject]['ids']: the ids of that subject in fetch order.
RECURSIVE GroupIds(_, _, _)
GroupIds(filtered, subject, i) ==
    IF i > Len(filtered) THEN <<>>
    ELSE IF filtered[i][2] = subject
         THEN <<filtered[i][1]>> \o GroupIds(filtered, subject, i + 1)
         ELSE GroupIds(filtered, subject, i + 1)

GroupOf(filtered, subject) ==
    [subject |-> subject, ids |-> GroupIds(filtered, subject, 1)]

\* Inserting g into a list sorted by descending count, after every group
\* whose count is at least g's (sorted() is stable, also with reverse=True).
\* A mutation of InsertByCount: a group is placed before the groups of the
\* same count (an unstable sort).
RECURSIVE InsertByCount_unstable(_, _)
InsertByCount_unstable(sorted, g) ==
    IF sorted = <<>> THEN <<g>>
    ELSE IF Len(Head(sorted).ids) > Len(g.ids)
         THEN <<Head(sorted)>> \o InsertByCount_unstable(Tail(sorted), g)
         ELSE <<g>> \o sorted

RECURSIVE InsertByCount(_, _)
InsertByCount(sorted, g) ==
    IF sorted = <<>> THEN <<g>>
    ELSE IF Len(Head(sorted).ids) >= Len(g.ids)
         THEN <<Head(sorted)>> \o InsertByCount(Tail(sorted), g)
         ELSE <<g>> \o sorted

RECURSIVE SortGroups(_, _, _, _)
SortGroups(filtered, keys, i, acc) ==
    IF i > Len(keys) THEN acc
    ELSE SortGroups(filtered, keys, i + 1,
                    InsertByCount(acc, GroupOf(filtered, keys[i])))

\* subjects_list = sorted(subject_count.items(), key=count, reverse=True)
subjects_list(filtered) ==
    SortGroups(filtered, SubjectKeys(filtered, 1, <<>>), 1, <<>>)

\* subjects_list[i-1] of Python for a list of n groups: the 1-based position
\* read, 0 when the index raises IndexError (negative indices wrap around).
PyIndex(i, n) ==
    IF i >= 1 /\ i <= n THEN i
    ELSE IF i <= 0 /\ i - 1 >= -n THEN n + i
    ELSE 0

\* A mutation of ResolveSelection: the ids of a group are put in front of
\* those resolved so far, so the plan runs against the order listed.
RECURSIVE ResolveSelection_backwards(_, _, _)
ResolveSelection_backwards(groups, selected, k) ==
    IF k > Len(selected) THEN [ok |-> TRUE, ids |-> <<>>]
    ELSE LET p == PyIndex(selected[k], Len(groups))
         IN  IF p = 0 THEN [ok |-> FALSE, ids |-> <<>>]
             ELSE LET rest == ResolveSelection_backwards(groups, selected, k + 1)
                  IN  [ok |-> rest.ok, ids |-> rest.ids \o groups[p].ids]

\* The loop that extends messages_to_delete with the ids of every selected
\* group; [ok |-> FALSE] when an index raises IndexError.
RECURSIVE ResolveSelection(_, _, _)
ResolveSelection(groups, selected, k) ==
    IF k > Len(selected) THEN [ok |-> TRUE, ids |-> <<>>]
    ELSE LET p == PyIndex(selected[k], Len(groups))
         IN  IF p = 0 THEN [ok |-> FALSE, ids |-> <<>>]
             ELSE LET rest == ResolveSelection(groups, selected, k + 1)
                  IN  [ok |-> rest.ok, ids |-> groups[p].ids \o rest.ids]

(***************************************************************************)
(* Folder Path Materializer and archive paths                              *)
(***************************************************************************)

\* str(year) and f"{month:02d}" for the dates the model knows.
YearStr(y) == CASE y = 2024 -> "2024" [] y = 2023 -> "2023" [] OTHER -> "y"
Pad2(m) ==
    CASE m = 1 -> "01" [] m = 2 -> "02" [] m = 3 -> "03" [] m = 4 -> "04"
      [] m = 5 -> "05" [] m = 6 -> "06" [] m = 7 -> "07" [] m = 8 -> "08"
      [] m = 9 -> "09" [] m = 10 -> "10" [] m = 11 -> "11" [] m = 12 -> "12"
      [] OTHER -> "mm"

\* The Date header of a message as the mail parser reads it ("" if absent).
RawDate(header_data) ==
    LET v == FieldValue(header_data, <<"Date">>)
    IN  IF v = <<>> THEN "" ELSE v[1]

\* A mutation of archive_path: the month is written without zero padding.
archive_path_nopad(dest_folder, source_folder_name, header_data) ==
    LET date_tuple == parsedate_tz(RawDate(header_data))
    IN  IF date_tuple # <<>>
        THEN <<dest_folder, source_folder_name, YearStr(date_tuple[1]),
               CASE date_tuple[2] = 2 -> "2" [] date_tuple[2] = 3 -> "3"
                 [] OTHER -> Pad2(date_tuple[2])>>
        ELSE <<dest_folder, source_folder_name>>

\* archive_path of archive_message_imap / archive_message_disk, as the
\* sequence of its segments: dest/source/YYYY/MM when the Date header
\* parses, dest/source otherwise.
archive_path(dest_folder, source_folder_name, header_data) ==
    LET date_tuple == parsedate_tz(RawDate(header_data))
    IN  IF date_tuple # <<>>
        THEN <<dest_folder, source_folder_name,
               YearStr(date_tuple[1]), Pad2(date_tuple[2])>>
        ELSE <<dest_folder, source_folder_name>>

\* imap.list(directory='"<path>"', pattern='*') returns an entry: some
\* folder of the server lies at or below path.
FolderListed(folders, path) ==
    \E f \in folders : Len(f) >= Len(path) /\ SubSeq(f, 1, Len(path)) = path

\* create_imap_folder: walks the prefixes of the path left to right; a
\* prefix that is not listed is created, and a create that reports NO ends
\* the walk with False.  failAt is the length of the prefix whose create
\* the server refuses (0: none).  Result: ok, the folders of the server
\* afterwards, the number of create commands issued and the number of
\* prefixes listed.

\* A mutation of create_imap_folder: every prefix is created without a look
\* at the list of the server.
RECURSIVE create_imap_folder_nocheck(_, _, _, _, _)
create_imap_folder_nocheck(folders, parts, k, failAt, creates) ==
    IF k > Len(parts)
    THEN [ok |-> TRUE, folders |-> folders, creates |-> creates, walked |-> k - 1]
    ELSE LET current_path == SubSeq(parts, 1, k)
         IN  IF k = failAt
             THEN [ok |-> FALSE, folders |-> folders, creates |-> creates + 1,
                   walked |-> k]
             ELSE create_imap_folder_nocheck(folders \cup {current_path}, parts,
                                             k + 1, failAt, creates + 1)

RECURSIVE create_imap_folder(_, _, _, _, _)
create_imap_folder(folders, parts, k, failAt, creates) ==
    IF k > Len(parts)
    THEN [ok |-> TRUE, folders |-> folders, creates |-> creates, walked |-> k - 1]
    ELSE LET current_path == SubSeq(parts, 1, k)
         IN  IF FolderListed(folders, current_path)
             THEN create_imap_folder(folders, parts, k + 1, failAt, creates)
             ELSE IF k = failAt
                  THEN [ok |-> FALSE, folders |-> folders, creates |-> creates + 1,
                        walked |-> k]
                  ELSE create_imap_folder(folders \cup {current_path}, parts,
                                          k + 1, failAt, creates + 1)

\* re.sub(r'[<>:"/\\|?*]', '_', subject) then .replace(':', '_') on one token.
Sanitize(t) ==
    CASE t = ": " -> "_ "
      [] t = "Mon, 04 Mar 2024 10:00:00 +0000" -> "Mon, 04 Mar 2024 10_00_00 +0000"
      [] t = "Thu, 01 Feb 2024 09:00:00 +0000" -> "Thu, 01 Feb 2024 09_00_00 +0000"
      [] OTHER -> t

\* safe_filename of archive_message_disk: the raw Date header, "_" and the
\* sanitized decoded subject ('No Subject' when the header is missing).
safe_filename(header_data) ==
    LET subject == FieldValue(header_data, <<"Subject">>)
        decoded == IF subject = <<>> THEN <<"No Subject">>
                   ELSE decode_mime_words(subject)
    IN  <<Sanitize(IF RawDate(header_data) = "" THEN "None" ELSE RawDate(header_data))>>
        \o [i \in 1..Len(decoded) |-> Sanitize(decoded[i])]

(***************************************************************************)
(* The inputs of a run                                                     *)
(***************************************************************************)

HLine(name, value) == name \o <<": ">> \o value

DateMar == "Mon, 04 Mar 2024 10:00:00 +0000"
DateFeb == "Thu, 01 Feb 2024 09:00:00 +0000"

\* Raw header blocks of the messages of the folder, with the day of the
\* message's internal date (what SEARCH SINCE / BEFORE compare).
MsgInvoice ==
    [hdr |-> << HLine(<<"From">>, <<"billing@example.com">>),
                HLine(<<"Subject">>, <<"Invoice", "#123">>),
                HLine(<<"Date">>, <<DateMar>>) >>,
     day |-> 1]
MsgXFrom ==
    [hdr |-> << HLine(<<"X-", "From">>, <<"billing@example.com">>),
                HLine(<<"From">>, <<"alice@other.org">>),
                HLine(<<"Subject">>, <<"Hello">>),
                HLine(<<"Date">>, <<DateFeb>>) >>,
     day |-> 1]
MsgHello ==
    [hdr |-> << HLine(<<"From">>, <<"alice@other.org">>),
                HLine(<<"Subject">>, <<"Hello">>),
                HLine(<<"Date">>, <<"yesterday">>) >>,
     day |-> 2]
MsgQuoted ==
    [hdr |-> << HLine(<<"Subject">>, <<"Fwd", "From", ": ", "billing@example.com">>),
                HLine(<<"From">>, <<"bob@other.org">>) >>,
     day |-> 2]
MsgUpper ==
    [hdr |-> << HLine(<<"FROM">>, <<"BILLING@EXAMPLE.COM">>),
                HLine(<<"Subject">>, <<"=?utf-8?q?Invoice?=", "#123">>) >>,
     day |-> 1]

MainKinds == {MsgInvoice, MsgHello}
AllKinds == {MsgInvoice, MsgXFrom, MsgHello, MsgQuoted, MsgUpper}

Mailboxes(kinds) == UNION {[1..n -> kinds] : n \in 0..MaxMsgs}

\* Header predicates (-a / -o HEADER REGEX).
PFromBilling == [header |-> <<"From">>, regex |-> Rx(<<"billing@example.com">>)]
PSubjInvoice == [header |-> <<"Subject">>, regex |-> Rx(<<"invoice">>)]
PFromAlice == [header |-> <<"From">>, regex |-> Rx(<<"alice@other.org">>)]
PBad == [header |-> <<"From">>, regex |-> BadRx]

\* The date window argument -d: absent, malformed, or dd/mm/yyyy-dd/mm/yyyy
\* with the days numbered 1, 2, ...
NoDate == [given |-> FALSE, wf |-> TRUE, start |-> 0, end |-> 0]
BadDate == [given |-> TRUE, wf |-> FALSE, start |-> 0, end |-> 0]
Window(a, b) == [given |-> TRUE, wf |-> TRUE, start |-> a, end |-> b]

BaseArgs ==
    [list |-> FALSE, folder |-> TRUE, datascope |-> NoDate, expunge |-> FALSE,
     archive |-> "none", and_headers |-> <<>>, or_headers |-> <<>>,
     has_regex |-> FALSE, regex |-> NoRx]

\* The command lines of the main specification.
MainArgs ==
    {[BaseArgs EXCEPT !.list = TRUE], [BaseArgs EXCEPT !.folder = FALSE],
     [BaseArgs EXCEPT !.datascope = BadDate],
     [BaseArgs EXCEPT !.datascope = Window(1, 2)],
     [BaseArgs EXCEPT !.datascope = Window(2, 1)],
     [BaseArgs EXCEPT !.has_regex = TRUE, !.regex = Rx(<<"invoice">>)]}
    \cup {[BaseArgs EXCEPT !.expunge = e, !.archive = ar] :
            e \in BOOLEAN, ar \in {"none", "imap", "disk"}}

\* The command lines of the filter specification: every composite filter
\* built from these AND lists, OR lists and subject regexes.
AndLists ==
    {<<>>, <<PFromBilling>>, <<PSubjInvoice>>, <<PFromBilling, PSubjInvoice>>, <<PBad>>}
OrLists ==
    {<<>>, <<PFromAlice>>, <<PSubjInvoice>>, <<PFromAlice, PSubjInvoice>>,
     <<PSubjInvoice, PFromAlice>>, <<PBad, PFromAlice>>, <<PFromAlice, PBad>>}
FilterArgs ==
    {[BaseArgs EXCEPT !.and_headers = ah, !.or_headers = oh, !.has_regex = hr,
                      !.regex = IF hr THEN Rx(<<"invoice">>) ELSE NoRx] :
        ah \in AndLists, oh \in OrLists, hr \in BOOLEAN}
    \cup {[BaseArgs EXCEPT !.has_regex = TRUE, !.regex = BadRx]}

\* Answers typed at the group-selection prompt: text, or a comma-separated
\* list of integers (nums).
Choices ==
    {[text |-> t, nums |-> <<>>] : t \in {"n", "N", "a", "x"}}
    \cup {[text |-> "", nums |-> ns] :
            ns \in {<<>>, <<0>>, <<1>>, <<2>>, <<1, 1>>, <<2, 1>>, <<2, 4>>, <<2, 0>>}}

\* Answers typed at the confirmation prompt.
Answers == {"s", "S", "n", ""}

(***************************************************************************)
(* State                                                                   *)
(***************************************************************************)
VARIABLES
    args,               \* the parsed command line
    mbox,               \* the messages of the folder, by sequence number
    pc,                 \* the position of main()
    session,            \* "none", "open" (after login), "closed" (after logout)
    exitStatus,         \* the process exit status, -1 while running
    msg_ids,            \* the sequence numbers returned by search
    idx,                \* iterations of the search loop completed
    filtered_msgs,      \* <<msg_id, subject, date>> of the matches
    non_matching,       \* the non_matching counter
    selected_groups,    \* the local of show_grouped_subjects_and_select
    messages_to_delete, \* the resolved plan
    didx,               \* iterations of the disposition loop completed
    flagged,            \* messages carrying \Deleted on the server
    removed,            \* messages removed by expunge
    trash,              \* messages copied to Trash
    remoteFolders,      \* folders of the server created by the run
    appended,           \* <<path, msg>> appended to remote folders
    files,              \* local files: <<path, name>> -> msg whose body it holds
    hist                \* observations of the run (history)

vars == <<args, mbox, pc, session, exitStatus, msg_ids, idx, filtered_msgs,
          non_matching, selected_groups, messages_to_delete, didx, flagged,
          removed, trash, remoteFolders, appended, files, hist>>

config == <<args, mbox>>
searchVars == <<msg_ids, idx, filtered_msgs, non_matching>>
planVars == <<selected_groups, messages_to_delete, didx>>
serverVars == <<flagged, removed, trash, remoteFolders, appended, files>>

\* Session commands and file-system calls that change something.
MutatingOps == {"store", "copy", "append", "create", "expunge", "write", "makedirs"}
\* Session commands issued for one message of the plan.
PerMessageOps == {"fetch", "list", "create", "append", "copy", "store"}
SessionOps == PerMessageOps \cup {"select", "search", "expunge", "namespace"}

\* The last iteration of the disposition loop: the message, whether its
\* copy / append / write reported success, whether store(+\Deleted) was
\* issued for it, whether it was printed as not transferred, and whether a
\* progress line followed it; for --archive also the outcome of
\* create_imap_folder ("none": not called), the number of creates issued,
\* the number of prefixes listed and whether append was issued.
NoIteration ==
    [msg |-> 0, kind |-> "none", actionOk |-> FALSE, stored |-> FALSE,
     reported |-> FALSE, progress |-> FALSE, copied |-> FALSE, creates |-> 0,
     made |-> "none", walked |-> 0, appendTried |-> FALSE]

InitHist ==
    [issued |-> {},            \* the kinds of command issued so far
     expunges |-> 0,           \* expunge commands issued
     logouts |-> 0,            \* logout calls
     afterLogout |-> FALSE,    \* a session command was issued after logout
     afterExpunge |-> FALSE,   \* a per-message command followed an expunge
     okMsgs |-> {},            \* messages whose action reported success
     failedMsgs |-> {},        \* messages with an iteration whose action failed
     reportedMsgs |-> {},      \* messages printed as not transferred
     skipped |-> 0,            \* search-loop iterations left by continue
     fatalConn |-> FALSE,      \* a session call raised out of main()
     crashed |-> "",           \* the uncaught exception, if any
     exitPath |-> "",          \* the way the run ended
     asked |-> FALSE,          \* the confirmation prompt was answered
     answer |-> "",            \* the confirmation answer as typed
     started |-> FALSE,        \* the disposition loop was entered
     choseNone |-> FALSE,      \* the selection prompt was left by 'n'
     accepted |-> <<>>,        \* the group indices the accepted answer names
     decoded |-> {},           \* messages whose header block was decoded
     selectTries |-> 0,        \* select commands issued
     last |-> NoIteration]

\* h after the commands ops were issued on the session.
Issue(h, ops) ==
    [h EXCEPT !.issued = @ \cup ops,
              !.afterLogout = @ \/ (session = "closed" /\ ops \cap SessionOps # {}),
              !.afterExpunge = @ \/ (h.expunges > 0 /\ ops \cap PerMessageOps # {})]

(***************************************************************************)
(* The run: main()                                                         *)
(***************************************************************************)

\* The progress line of both disposition loops is printed every
\* ProgressEvery messages and after the last one.
ProgressEvery == 10

Init ==
    /\ args \in MainArgs
    /\ mbox \in Mailboxes(MainKinds)
    /\ pc = "start"
    /\ session = "none"
    /\ exitStatus = -1
    /\ msg_ids = <<>>
    /\ idx = 0
    /\ filtered_msgs = <<>>
    /\ non_matching = 0
    /\ selected_groups = <<>>
    /\ messages_to_delete = <<>>
    /\ didx = 0
    /\ flagged = {}
    /\ removed = {}
    /\ trash = {}
    /\ remoteFolders = {}
    /\ appended = {}
    /\ files = {}
    /\ hist = InitHist

\* A mutation of Finish: sys.exit is missing, main() goes on from where it
\* was after the logout.
Finish_noexit(h, status, path, doLogout) ==
    /\ pc' = IF doLogout THEN pc ELSE "exit"
    /\ exitStatus' = status
    /\ session' = IF doLogout THEN "closed" ELSE session
    /\ hist' = [h EXCEPT !.exitPath = path,
                         !.logouts = IF doLogout THEN @ + 1 ELSE @]

\* The process ends with the given status; logout is called first when
\* doLogout.
Finish(h, status, path, doLogout) ==
    /\ pc' = "exit"
    /\ exitStatus' = status
    /\ session' = IF doLogout THEN "closed" ELSE session
    /\ hist' = [h EXCEPT !.exitPath = path,
                         !.logouts = IF doLogout THEN @ + 1 ELSE @]

\* An exception leaves main(): traceback, exit status 1, no logout.
Crash(h, exc) ==
    Finish([h EXCEPT !.crashed = exc], 1, "crash", FALSE)

\* connect_imap: IMAP4_SSL + login; an IMAP error exits with status 1.
connect_imap ==
    /\ pc = "start"
    /\ \E ok \in BOOLEAN :
         IF ok
         THEN /\ session' = "open"
              /\ pc' = "args"
              /\ UNCHANGED <<exitStatus, hist>>
         ELSE Finish(hist, 1, "connect", FALSE)
    /\ UNCHANGED <<config, searchVars, planVars, serverVars>>

\* if args.list: list_folders(imap); imap.logout(); sys.exit(0)
list_folders ==
    /\ pc = "args"
    /\ args.list
    /\ Finish(Issue(hist, {"list"}), 0, "list", TRUE)
    /\ UNCHANGED <<config, searchVars, planVars, serverVars>>

\* if not args.folder: print(...); sys.exit(1)
CheckFolder ==
    /\ pc = "args"
    /\ ~args.list
    /\ IF ~args.folder
       THEN Finish(hist, 1, "nofolder", FALSE)
       ELSE /\ pc' = "select"
            /\ UNCHANGED <<session, exitStatus, hist>>
    /\ UNCHANGED <<config, searchVars, planVars, serverVars>>

\* imap.select(folder_name), retried with the quoted name when the first
\* call raises; a second raise or a status other than OK logs out and exits.
SelectFolder ==
    /\ pc = "select"
    /\ \E r1 \in {"OK", "NO", "raise"}, r2 \in {"OK", "NO", "raise"} :
         LET tries == IF r1 = "raise" THEN 2 ELSE 1
             res == IF r1 = "raise" THEN r2 ELSE r1
             h == [Issue(hist, {"select"}) EXCEPT !.selectTries = tries]
         IN  IF res = "raise" THEN Finish(h, 1, "select", TRUE)
             ELSE IF res # "OK" THEN Finish(h, 1, "select", TRUE)
             ELSE /\ pc' = "criteria"
                  /\ hist' = h
                  /\ UNCHANGED <<session, exitStatus>>
    /\ UNCHANGED <<config, searchVars, planVars, serverVars>>

\* get_date_range: a string that does not parse prints a message and
\* calls sys.exit(1).
get_date_range ==
    /\ pc = "criteria"
    /\ IF args.datascope.given /\ ~args.datascope.wf
       THEN Finish(hist, 1, "baddate", FALSE)
       ELSE /\ pc' = "search"
            /\ UNCHANGED <<session, exitStatus, hist>>
    /\ UNCHANGED <<config, searchVars, planVars, serverVars>>

\* SEARCH ALL, or SEARCH SINCE <start> BEFORE <end>: the sequence numbers
\* of the messages whose internal date is on or after start and before end.
SearchResult(box, ds) ==
    SelectSeq([i \in 1..Len(box) |-> i],
              LAMBDA i : ~ds.given \/ (ds.start <= box[i].day /\ box[i].day < ds.end))

Search ==
    /\ pc = "search"
    /\ \E r \in {"OK", "NO"} :
         IF r # "OK" THEN /\ Finish(Issue(hist, {"search"}), 1, "search", TRUE)
                          /\ UNCHANGED searchVars
         ELSE /\ msg_ids' = SearchResult(mbox, args.datascope)
              /\ idx' = 0
              /\ filtered_msgs' = <<>>
              /\ non_matching' = 0
              /\ pc' = "filter"
              /\ hist' = Issue(hist, {"search"})
              /\ UNCHANGED <<session, exitStatus>>
    /\ UNCHANGED <<config, planVars, serverVars>>

\* The body of the search loop once the header block is decoded: append to
\* filtered_msgs, or count as non-matching, or leave by the except clause.
ProcessHeaders(filtered, nonm, msg_id, header_data, a) ==
    LET d == FilterDecision(header_data, a)
    IN  IF d = "match"
        THEN [filtered |-> Append(filtered,
                  <<msg_id, get_header_value(header_data, <<"Subject">>),
                    get_header_value(header_data, <<"Date">>)>>),
              non_matching |-> nonm, skipped |-> FALSE]
        ELSE IF d = "nomatch"
        THEN [filtered |-> filtered, non_matching |-> nonm + 1, skipped |-> FALSE]
        ELSE [filtered |-> filtered, non_matching |-> nonm, skipped |-> TRUE]

\* One iteration of the search loop.  A header fetch that fails, returns
\* no data or raises leaves the iteration by continue: nothing is appended
\* and non_matching is not incremented.
FilterStep ==
    /\ pc = "filter"
    /\ idx < Len(msg_ids)
    /\ \E f \in {"OK", "NO", "nodata", "raise"} :
         LET msg_id == msg_ids[idx + 1]
             r == IF f = "OK"
                  THEN ProcessHeaders(filtered_msgs, non_matching, msg_id,
                                      mbox[msg_id].hdr, args)
                  ELSE [filtered |-> filtered_msgs, non_matching |-> non_matching,
                        skipped |-> TRUE]
         IN  /\ filtered_msgs' = r.filtered
             /\ non_matching' = r.non_matching
             /\ hist' = [Issue(hist, {"fetch"}) EXCEPT
                            !.skipped = IF r.skipped THEN @ + 1 ELSE @,
                            !.decoded = IF f = "OK" THEN @ \cup {msg_id} ELSE @]
    /\ idx' = idx + 1
    /\ UNCHANGED <<config, pc, session, exitStatus, msg_ids, planVars, serverVars>>

\* After the loop: no match logs out and exits with status 0.
FilterEnd ==
    /\ pc = "filter"
    /\ idx = Len(msg_ids)
    /\ IF Len(filtered_msgs) = 0
       THEN Finish(hist, 0, "nomatch", TRUE)
       ELSE /\ pc' = "prompt"
            /\ UNCHANGED <<session, exitStatus, hist>>
    /\ UNCHANGED <<config, searchVars, planVars, serverVars>>

(***************************************************************************)
(* Selection and confirmation                                              *)
(***************************************************************************)

AllGroups(n) == [i \in 1..n |-> i]

\* What one answer at the selection prompt does to selected_groups, and
\* whether the prompt loop is left (break).  'n' leaves the loop without
\* touching selected_groups; a list with an index out of range is assigned
\* to selected_groups before it is rejected; text that is no integer raises
\* ValueError before the assignment.
PromptStep(selected, choice, ngroups) ==
    LET low == Lower(choice.text)
    IN  IF low = "n" THEN [selected |-> selected, done |-> TRUE]
        ELSE IF low = "a" THEN [selected |-> AllGroups(ngroups), done |-> TRUE]
        ELSE IF low # "" THEN [selected |-> selected, done |-> FALSE]
        ELSE [selected |-> choice.nums,
              done |-> \A k \in 1..Len(choice.nums) :
                          1 <= choice.nums[k] /\ choice.nums[k] <= ngroups]

\* show_grouped_subjects_and_select: one answer at the prompt; when the
\* loop is left the selected groups are resolved into messages_to_delete.
show_grouped_subjects_and_select ==
    /\ pc = "prompt"
    /\ LET groups == subjects_list(filtered_msgs)
       IN  \E choice \in Choices :
             LET r == PromptStep(selected_groups, choice, Len(groups))
                 res == ResolveSelection(groups, r.selected, 1)
                 h == [hist EXCEPT !.choseNone = (Lower(choice.text) = "n"),
                                   !.accepted =
                                       IF ~r.done \/ Lower(choice.text) = "n" THEN <<>>
                                       ELSE r.selected]
             IN  IF ~r.done
                 THEN /\ selected_groups' = r.selected
                      /\ hist' = h
                      /\ UNCHANGED <<pc, session, exitStatus, messages_to_delete>>
                 ELSE IF ~res.ok
                 THEN /\ Crash(h, "IndexError")
                      /\ selected_groups' = <<>>
                      /\ UNCHANGED messages_to_delete
                 ELSE /\ messages_to_delete' = res.ids
                      /\ selected_groups' = <<>>
                      /\ pc' = "confirm"
                      /\ hist' = h
                      /\ UNCHANGED <<session, exitStatus>>
    /\ UNCHANGED <<config, searchVars, didx, serverVars>>

\* A mutation of ConfirmProceeds: everything but 'n' is taken as consent.
ConfirmProceeds_notn(answer) == Lower(answer) # "n"

\* confirm_action.lower() != 's' aborts; 's' and 'S' proceed.
ConfirmProceeds(answer) == Lower(answer) = "s"

\* The confirmation prompt.  Its text uses the local `action`, which is
\* bound only when messages_to_delete is not empty: with an empty plan the
\* f-string raises UnboundLocalError before the prompt is shown.
Confirm ==
    /\ pc = "confirm"
    /\ IF messages_to_delete = <<>>
       THEN Crash(hist, "UnboundLocalError")
       ELSE \E answer \in Answers :
              LET h == [hist EXCEPT !.answer = answer, !.asked = TRUE]
              IN  IF ConfirmProceeds(answer)
                  THEN /\ pc' = "dispose"
                       /\ hist' = [h EXCEPT !.started = TRUE]
                       /\ UNCHANGED <<session, exitStatus>>
                  ELSE Finish(h, 0, "declined", TRUE)
    /\ didx' = 0
    /\ UNCHANGED <<config, searchVars, selected_groups, messages_to_delete, serverVars>>

(***************************************************************************)
(* Disposition Engine: the two loops of main()                             *)
(***************************************************************************)

\* A mutation of StoreAfterCopy: the result of copy is not looked at.
StoreAfterCopy_always(res) == TRUE

\* res = imap.copy(msg_id, 'Trash'); if res[0] == 'OK': imap.store(...)
StoreAfterCopy(res) == res = "OK"

\* if idx % 10 == 0 or idx == len(messages_to_delete): print progress
ProgressPrinted(i, total) == i % ProgressEvery = 0 \/ i = total

\* hist after one iteration of a disposition loop.
AfterIteration(h, it) ==
    [h EXCEPT !.last = it,
              !.okMsgs = IF it.actionOk THEN @ \cup {it.msg} ELSE @,
              !.failedMsgs = IF it.actionOk THEN @ ELSE @ \cup {it.msg},
              !.reportedMsgs = IF it.reported THEN @ \cup {it.msg} ELSE @]

\* One iteration of the loop of lines 649-657 (no archive option): with -e
\* the message is flagged directly, otherwise it is copied to Trash and
\* flagged when the copy reports OK.  A failed copy prints nothing.
DeleteStep ==
    /\ pc = "dispose"
    /\ args.archive = "none"
    /\ didx < Len(messages_to_delete)
    /\ LET msg == messages_to_delete[didx + 1]
           prog == ProgressPrinted(didx + 1, Len(messages_to_delete))
       IN  IF args.expunge
           THEN /\ flagged' = flagged \cup {msg}
                /\ hist' = AfterIteration(Issue(hist, {"store"}),
                              [NoIteration EXCEPT !.msg = msg, !.kind = "delete",
                                   !.actionOk = TRUE, !.stored = TRUE, !.progress = prog])
                /\ didx' = didx + 1
                /\ UNCHANGED <<pc, session, exitStatus, trash>>
           ELSE \E c \in {"OK", "NO", "raise"} :
                  IF c = "raise"
                  THEN /\ Crash([Issue(hist, {"copy"}) EXCEPT !.fatalConn = TRUE], "IMAP4.abort")
                       /\ UNCHANGED <<didx, flagged, trash>>
                  ELSE LET st == StoreAfterCopy(c)
                       IN  /\ trash' = IF c = "OK" THEN trash \cup {msg} ELSE trash
                           /\ flagged' = IF st THEN flagged \cup {msg} ELSE flagged
                           /\ hist' = AfterIteration(
                                  Issue(hist, IF st THEN {"copy", "store"} ELSE {"copy"}),
                                  [NoIteration EXCEPT !.msg = msg, !.kind = "trash",
                                       !.actionOk = (c = "OK"), !.copied = (c = "OK"),
                                       !.stored = st, !.progress = prog])
                           /\ didx' = didx + 1
                           /\ UNCHANGED <<pc, session, exitStatus>>
    /\ UNCHANGED <<config, searchVars, selected_groups, messages_to_delete,
                   removed, remoteFolders, appended, files>>

\* The folder names of the run: --archive / --archive-to-disk root and
\* os.path.basename(args.folder).
DestFolder == "Archive"
SourceFolderName == "INBOX"

\* A mutation of archive_message_imap: the result of create_imap_folder is
\* not looked at.
archive_message_imap_ignorecreate(folders, header_data, f, failAt, l, ap) ==
    IF f # "OK" THEN [ok |-> FALSE, folders |-> folders, ops |-> {"fetch"},
                      creates |-> 0, appendedTo |-> <<>>, made |-> "none",
                      walked |-> 0]
    ELSE LET path == archive_path(DestFolder, SourceFolderName, header_data)
             c == create_imap_folder(folders, path, 1, failAt, 0)
             cops == {"fetch", "list"} \cup (IF c.creates > 0 THEN {"create"} ELSE {})
         IN  IF l # "OK" THEN [ok |-> FALSE, folders |-> c.folders, ops |-> cops,
                               creates |-> c.creates, appendedTo |-> <<>>,
                               made |-> IF c.ok THEN "ok" ELSE "fail",
                               walked |-> c.walked]
             ELSE [ok |-> ap = "OK", folders |-> c.folders,
                   ops |-> cops \cup {"append"}, creates |-> c.creates,
                   appendedTo |-> IF ap = "OK" THEN path ELSE <<>>,
                   made |-> IF c.ok THEN "ok" ELSE "fail", walked |-> c.walked]

\* archive_message_imap: fetch the message, materialize the archive path,
\* list it and append the body.  The result is that of the append.
archive_message_imap(folders, header_data, f, failAt, l, ap) ==
    IF f # "OK" THEN [ok |-> FALSE, folders |-> folders, ops |-> {"fetch"},
                      creates |-> 0, appendedTo |-> <<>>, made |-> "none",
                      walked |-> 0]
    ELSE LET path == archive_path(DestFolder, SourceFolderName, header_data)
             c == create_imap_folder(folders, path, 1, failAt, 0)
             cops == {"fetch", "list"} \cup (IF c.creates > 0 THEN {"create"} ELSE {})
         IN  IF ~c.ok THEN [ok |-> FALSE, folders |-> c.folders, ops |-> cops,
                            creates |-> c.creates, appendedTo |-> <<>>,
                            made |-> "fail", walked |-> c.walked]
             ELSE IF l # "OK" THEN [ok |-> FALSE, folders |-> c.folders, ops |-> cops,
                                    creates |-> c.creates, appendedTo |-> <<>>,
                                    made |-> "ok", walked |-> c.walked]
             ELSE [ok |-> ap = "OK", folders |-> c.folders,
                   ops |-> cops \cup {"append"}, creates |-> c.creates,
                   appendedTo |-> IF ap = "OK" THEN path ELSE <<>>,
                   made |-> "ok", walked |-> c.walked]

\* What the server answers during one archive_message_imap call: the
\* result of fetch, the length of the path prefix whose create is refused
\* (0: none), the result of the list of the archive path, the result of
\* append.  Only the answers that are read are varied.
ImapReplies ==
    {<<"raise", 0, "OK", "OK">>, <<"NO", 0, "OK", "OK">>,
     <<"OK", 0, "NO", "OK">>, <<"OK", 0, "OK", "NO">>}
    \cup {<<"OK", k, "OK", "OK">> : k \in 0..4}

\* One iteration of the archive loop with --archive (lines 625-644).
ArchiveImapStep ==
    /\ pc = "dispose"
    /\ args.archive = "imap"
    /\ didx < Len(messages_to_delete)
    /\ \E e \in ImapReplies :
         LET f == e[1]
             failAt == e[2]
             l == e[3]
             ap == e[4]
             msg == messages_to_delete[didx + 1]
             r == archive_message_imap(remoteFolders, mbox[msg].hdr, f, failAt, l, ap)
             prog == ProgressPrinted(didx + 1, Len(messages_to_delete))
         IN  IF f = "raise"
             THEN /\ Crash([Issue(hist, {"fetch"}) EXCEPT !.fatalConn = TRUE], "IMAP4.abort")
                  /\ UNCHANGED <<didx, flagged, remoteFolders, appended>>
             ELSE /\ remoteFolders' = r.folders
                  /\ appended' = IF r.ok THEN appended \cup {<<r.appendedTo, msg>>}
                                 ELSE appended
                  /\ flagged' = IF r.ok THEN flagged \cup {msg} ELSE flagged
                  /\ hist' = AfterIteration(
                         Issue(hist, r.ops \cup (IF r.ok THEN {"store"} ELSE {})),
                         [NoIteration EXCEPT !.msg = msg, !.kind = "imap",
                              !.actionOk = r.ok, !.stored = r.ok, !.reported = ~r.ok,
                              !.progress = prog, !.creates = r.creates,
                              !.made = r.made, !.walked = r.walked,
                              !.appendTried = ("append" \in r.ops)])
                  /\ didx' = didx + 1
                  /\ UNCHANGED <<pc, session, exitStatus>>
    /\ UNCHANGED <<config, searchVars, selected_groups, messages_to_delete,
                   removed, trash, files>>

\* The files after open(file_path, 'wb').write(email_body): the file of
\* that path and name now holds the body of msg.
WriteFile(fs, path, name, msg) ==
    {x \in fs : ~(x.path = path /\ x.name = name)}
    \cup {[path |-> path, name |-> name, body |-> msg]}

\* A mutation of CopyToTrash: -e is not looked at after a write.
CopyToTrash_always(success, expunge) == success

\* After archive_message_disk (lines 631-637): the message is copied to
\* Trash when the write succeeded and -e was not given.
CopyToTrash(success, expunge) == success /\ ~expunge

\* What the server and the file system answer during one iteration with
\* --archive-to-disk: fetch, os.makedirs, the write of the file, copy.
DiskReplies ==
    {<<"raise", "ok", "ok", "OK">>, <<"NO", "ok", "ok", "OK">>,
     <<"OK", "OSError", "ok", "OK">>, <<"OK", "ok", "IOError", "OK">>,
     <<"OK", "ok", "ok", "NO">>, <<"OK", "ok", "ok", "OK">>}

\* One iteration of the archive loop with --archive-to-disk: fetch,
\* os.makedirs (outside every try block: an OSError leaves main()), write
\* of the file (IOError is caught and gives False); then -e flags the
\* message, otherwise it is copied to Trash and flagged when the copy
\* reports OK.
ArchiveDiskStep ==
    /\ pc = "dispose"
    /\ args.archive = "disk"
    /\ didx < Len(messages_to_delete)
    /\ \E e \in DiskReplies :
         LET f == e[1]
             mk == e[2]
             w == e[3]
             c == e[4]
             msg == messages_to_delete[didx + 1]
             hdr == mbox[msg].hdr
             path == archive_path(DestFolder, SourceFolderName, hdr)
             success == f = "OK" /\ w = "ok"
             copy == CopyToTrash(success, args.expunge)
             st == success /\ (args.expunge \/ StoreAfterCopy(c))
             prog == ProgressPrinted(didx + 1, Len(messages_to_delete))
             ops == {"fetch"} \cup (IF f = "OK" THEN {"makedirs"} ELSE {})
                    \cup (IF success THEN {"write"} ELSE {})
                    \cup (IF copy THEN {"copy"} ELSE {})
                    \cup (IF st THEN {"store"} ELSE {})
         IN  IF f = "raise"
             THEN /\ Crash([Issue(hist, {"fetch"}) EXCEPT !.fatalConn = TRUE], "IMAP4.abort")
                  /\ UNCHANGED <<didx, flagged, trash, files>>
             ELSE IF f = "OK" /\ mk = "OSError"
             THEN /\ Crash(Issue(hist, {"fetch", "makedirs"}), "OSError")
                  /\ UNCHANGED <<didx, flagged, trash, files>>
             ELSE /\ files' = IF success THEN WriteFile(files, path, safe_filename(hdr), msg)
                              ELSE files
                  /\ trash' = IF copy /\ c = "OK" THEN trash \cup {msg} ELSE trash
                  /\ flagged' = IF st THEN flagged \cup {msg} ELSE flagged
                  /\ hist' = AfterIteration(Issue(hist, ops),
                         [NoIteration EXCEPT !.msg = msg, !.kind = "disk",
                              !.actionOk = success /\ (copy => c = "OK"),
                              !.copied = copy /\ c = "OK", !.stored = st,
                              !.reported = ~success, !.progress = prog])
                  /\ didx' = didx + 1
                  /\ UNCHANGED <<pc, session, exitStatus>>
    /\ UNCHANGED <<config, searchVars, selected_groups, messages_to_delete,
                   removed, remoteFolders, appended>>

\* imap.expunge() after the loop: every flagged message is removed.
Expunge ==
    /\ pc = "dispose"
    /\ didx = Len(messages_to_delete)
    /\ removed' = removed \cup flagged
    /\ flagged' = {}
    /\ hist' = [Issue(hist, {"expunge"}) EXCEPT !.expunges = @ + 1]
    /\ pc' = "logout"
    /\ UNCHANGED <<config, session, exitStatus, searchVars, planVars,
                   trash, remoteFolders, appended, files>>

\* imap.logout() at the end of main(); the process ends with status 0.
Logout ==
    /\ pc = "logout"
    /\ Finish(hist, 0, "completed", TRUE)
    /\ UNCHANGED <<config, searchVars, planVars, serverVars>>

Next ==
    \/ connect_imap
    \/ list_folders
    \/ CheckFolder
    \/ SelectFolder
    \/ get_date_range
    \/ Search
    \/ FilterStep
    \/ FilterEnd
    \/ show_grouped_subjects_and_select
    \/ Confirm
    \/ DeleteStep
    \/ ArchiveImapStep
    \/ ArchiveDiskStep
    \/ Expunge
    \/ Logout

Spec == Init /\ [][Next]_vars

(***************************************************************************)
(* The filter specification: the search loop alone, on every composite     *)
(* filter and header block of the model, from the state main() is in       *)
(* after a successful search.                                              *)
(***************************************************************************)
InitFilter ==
    /\ args \in FilterArgs
    /\ mbox \in Mailboxes(AllKinds)
    /\ pc = "filter"
    /\ session = "open"
    /\ exitStatus = -1
    /\ msg_ids = SearchResult(mbox, args.datascope)
    /\ idx = 0
    /\ filtered_msgs = <<>>
    /\ non_matching = 0
    /\ selected_groups = <<>>
    /\ messages_to_delete = <<>>
    /\ didx = 0
    /\ flagged = {}
    /\ removed = {}
    /\ trash = {}
    /\ remoteFolders = {}
    /\ appended = {}
    /\ files = {}
    /\ hist = [InitHist EXCEPT !.issued = {"select", "search"}, !.selectTries = 1]

NextFilter ==
    \/ FilterStep
    \/ FilterEnd

SpecFilter == InitFilter /\ [][NextFilter]_vars

(***************************************************************************)
(* Properties                                                              *)
(***************************************************************************)

Ended == pc = "exit"
NoMutation == hist.issued \cap MutatingOps = {}
\* The ids of the match list.
MatchedIds == {filtered_msgs[k][1] : k \in 1..Len(filtered_msgs)}

\* C1: in trash-move, archive-remote and archive-local, store(+\Deleted) is
\* issued for a message only in an iteration whose copy / append / write
\* (and, for archive-local without -e, the copy to Trash that follows)
\* reported success; a message is flagged or expunged only if one of its
\* iterations succeeded, so an iteration whose action failed flags nothing.
C1_MarkedOnlyAfterSuccess ==
    /\ hist.last.stored => hist.last.actionOk
    /\ (flagged \cup removed) \subseteq hist.okMsgs
    /\ hist.last.kind = "trash" /\ hist.last.stored => hist.last.msg \in trash
    /\ hist.last.kind = "imap" /\ hist.last.stored =>
           \E a \in appended : a[2] = hist.last.msg
    /\ hist.last.kind = "disk" /\ hist.last.stored =>
           \E x \in files : x.body = hist.last.msg

\* C1 witness: a completed trash-move run in which one copy failed and one
\* succeeded: the failed message is still in the folder, the other is gone.
C1_Witness ==
    /\ Ended
    /\ hist.exitPath = "completed"
    /\ hist.last.kind = "trash"
    /\ \E m \in hist.failedMsgs : m \notin removed /\ m \notin hist.okMsgs
    /\ removed # {}

\* C2: once the session is open, the process never ends without logout.
C2_LogoutOnEveryExit ==
    Ended /\ session # "none" => session = "closed" /\ hist.logouts >= 1

\* C3 as stated: a confirmation answer other than 's' leaves the run
\* without any mutating command.
C3_Original ==
    hist.asked /\ hist.answer # "s" => NoMutation

\* C3 amended: a confirmation answer other than 's' or 'S' ends the run
\* with no mutating command issued, and no mutating command is issued
\* before the confirmation is answered.
C3_DeclineNoSideEffects ==
    /\ hist.asked /\ Lower(hist.answer) # "s" => NoMutation /\ Ended
    /\ ~hist.asked => NoMutation

\* C3 witness: the run ended on a declined confirmation.
C3_Witness ==
    /\ Ended
    /\ hist.asked
    /\ hist.answer = "n"
    /\ hist.exitPath = "declined"
    /\ messages_to_delete # <<>>

\* C4: when the selection prompt is left by 'n', the run ends normally:
\* empty plan, no disposition command, logout, exit status 0.
C4_NoneEndsNormally ==
    Ended /\ hist.choseNone =>
        /\ messages_to_delete = <<>>
        /\ NoMutation
        /\ session = "closed"
        /\ exitStatus = 0

\* C5: every message whose disposition action failed is printed as not
\* transferred.
C5_FailuresReported ==
    hist.failedMsgs \subseteq hist.reportedMsgs

\* C6: a run that entered the disposition loop and met no fatal connection
\* error issues exactly one expunge, after the last per-message command.
C6_OneExpungeAtEnd ==
    /\ hist.expunges <= 1
    /\ ~hist.afterExpunge
    /\ Ended /\ hist.started /\ ~hist.fatalConn => hist.expunges = 1

\* C7: a per-message failure never aborts the run: without a fatal
\* connection error every message of the plan is processed and the run
\* completes.
C7_FailureNeverAborts ==
    Ended /\ hist.started /\ ~hist.fatalConn =>
        /\ didx = Len(messages_to_delete)
        /\ hist.exitPath = "completed"

\* The composite filter as the specification states it, on a header block.
PredHolds(header_data, pred) ==
    re_search(pred.regex, get_header_value(header_data, pred.header))
CompositeMatch(header_data, a) ==
    /\ \A k \in 1..Len(a.and_headers) : PredHolds(header_data, a.and_headers[k])
    /\ \/ Len(a.or_headers) = 0
       \/ \E k \in 1..Len(a.or_headers) : PredHolds(header_data, a.or_headers[k])
    /\ \/ ~a.has_regex
       \/ re_search(a.regex, get_header_value(header_data, <<"Subject">>))
\* Every regex of the command line compiles.
WellFormed(a) ==
    /\ \A k \in 1..Len(a.and_headers) : a.and_headers[k].regex.ok
    /\ \A k \in 1..Len(a.or_headers) : a.or_headers[k].regex.ok
    /\ a.regex.ok

\* C8: with regexes that compile, a message whose header block was decoded
\* is in the match list iff every AND predicate matches, the OR list is
\* empty or one of its predicates matches, and the subject regex is absent
\* or matches the decoded Subject.
C8_MatchIffComposite ==
    WellFormed(args) =>
        \A m \in hist.decoded :
            (m \in MatchedIds) <=> CompositeMatch(mbox[m].hdr, args)

\* C8 witness: an OR list of two predicates and an AND predicate, one
\* decoded message matched and one decoded message rejected.
C8_Witness ==
    /\ WellFormed(args)
    /\ Len(args.or_headers) = 2
    /\ Len(args.and_headers) >= 1
    /\ \E m \in hist.decoded : m \in MatchedIds
    /\ \E m \in hist.decoded : m \notin MatchedIds

\* C9: with the AND predicate (From, billing@example.com) and no OR
\* predicate, every matched message has that text in its From header.
C9_FromPredicateReadsFrom ==
    args.and_headers = <<PFromBilling>> /\ args.or_headers = <<>> =>
        \A m \in MatchedIds :
            re_search(PFromBilling.regex, FieldValue(mbox[m].hdr, <<"From">>))

\* C10: after k iterations of the search loop the matched count plus the
\* non-matching count is k.
C10_CountsAddUp ==
    pc = "filter" => Len(filtered_msgs) + non_matching = idx

\* C11: a malformed regex of the command line aborts the run before any
\* message is fetched.
C11_BadRegexFailsFast ==
    ~WellFormed(args) => "fetch" \notin hist.issued

\* C12: a well-formed date window whose start is later than its end makes
\* the run fail before a search is issued with it.
C12_ReversedWindowRejected ==
    args.datascope.given /\ args.datascope.wf
        /\ args.datascope.start > args.datascope.end
    => "search" \notin hist.issued

\* C13: the search built from the window (start, end) returns every message
\* whose date d satisfies start <= d <= end.
C13_WindowInclusive ==
    pc = "filter" /\ args.datascope.given =>
        \A i \in 1..Len(mbox) :
            args.datascope.start <= mbox[i].day /\ mbox[i].day <= args.datascope.end
            => \E k \in 1..Len(msg_ids) : msg_ids[k] = i

(***************************************************************************)
(* The grouping specification: show_grouped_subjects_and_select and the    *)
(* confirmation on every match list of up to MaxRecs messages with up to   *)
(* three different subjects, from the state main() is in after a search    *)
(* loop in which every message matched.                                    *)
(***************************************************************************)
GroupKinds == {MsgInvoice, MsgHello, MsgQuoted}

MatchRecords(box) ==
    [i \in 1..Len(box) |->
        <<i, get_header_value(box[i].hdr, <<"Subject">>),
          get_header_value(box[i].hdr, <<"Date">>)>>]

InitGroup ==
    /\ args = BaseArgs
    /\ mbox \in UNION {[1..n -> GroupKinds] : n \in 1..MaxRecs}
    /\ pc = "prompt"
    /\ session = "open"
    /\ exitStatus = -1
    /\ msg_ids = [i \in 1..Len(mbox) |-> i]
    /\ idx = Len(mbox)
    /\ filtered_msgs = MatchRecords(mbox)
    /\ non_matching = 0
    /\ selected_groups = <<>>
    /\ messages_to_delete = <<>>
    /\ didx = 0
    /\ flagged = {}
    /\ removed = {}
    /\ trash = {}
    /\ remoteFolders = {}
    /\ appended = {}
    /\ files = {}
    /\ hist = [InitHist EXCEPT !.issued = {"select", "search", "fetch"},
                               !.selectTries = 1,
                               !.decoded = {i : i \in 1..Len(mbox)}]

NextGroup ==
    \/ show_grouped_subjects_and_select
    \/ Confirm

SpecGroup == InitGroup /\ [][NextGroup]_vars

\* The position at which a subject is first seen in the match list.
FirstSeen(filtered, subject) ==
    Min({k \in 1..Len(filtered) : filtered[k][2] = subject})

\* C14: the groups partition the match list by exact subject; they are in
\* descending order of count, groups of equal count in first-seen order of
\* their subjects; the ids of a group are in fetch order.
C14_GroupingOrder ==
    LET g == subjects_list(filtered_msgs)
    IN  /\ \A k \in 1..(Len(g) - 1) :
              \/ Len(g[k].ids) > Len(g[k + 1].ids)
              \/ /\ Len(g[k].ids) = Len(g[k + 1].ids)
                 /\ FirstSeen(filtered_msgs, g[k].subject)
                      < FirstSeen(filtered_msgs, g[k + 1].subject)
        /\ \A k \in 1..Len(g) :
              /\ {g[k].ids[j] : j \in 1..Len(g[k].ids)}
                   = {filtered_msgs[i][1] : i \in {x \in 1..Len(filtered_msgs) :
                                                     filtered_msgs[x][2] = g[k].subject}}
              /\ \A j \in 1..(Len(g[k].ids) - 1) : g[k].ids[j] < g[k].ids[j + 1]
        /\ \A i \in 1..Len(filtered_msgs) :
              Cardinality({k \in 1..Len(g) : g[k].subject = filtered_msgs[i][2]}) = 1

\* C14 witness: the selection was made on a list whose largest group is not
\* the first subject seen.
C14_Witness ==
    LET g == subjects_list(filtered_msgs)
    IN  /\ pc = "confirm"
        /\ Len(g) = 2
        /\ Len(g[1].ids) = 2
        /\ g[1].subject # filtered_msgs[1][2]

\* C14 second case, reached as well: three groups of one message each.
C14_TieCase ==
    LET g == subjects_list(filtered_msgs)
    IN  pc = "confirm" /\ Len(g) = 3

\* C15: every message of the resolved set belongs to a group that the
\* accepted answer names; nothing of a rejected answer enters it.
C15_RejectedInputLeavesNothing ==
    pc = "confirm" =>
        LET g == subjects_list(filtered_msgs)
        IN  \A j \in 1..Len(messages_to_delete) :
              \E k \in 1..Len(hist.accepted) :
                 /\ hist.accepted[k] \in 1..Len(g)
                 /\ \E x \in 1..Len(g[hist.accepted[k]].ids) :
                       g[hist.accepted[k]].ids[x] = messages_to_delete[j]

\* The archive path of a message of the mailbox and its prefix of length k.
PathOf(msg) == archive_path(DestFolder, SourceFolderName, mbox[msg].hdr)
Prefix(path, k) == SubSeq(path, 1, k)

\* An iteration of the --archive loop on message msg is taken in this step.
ImapIteration(msg) ==
    /\ pc = "dispose"
    /\ args.archive = "imap"
    /\ didx < Len(messages_to_delete)
    /\ messages_to_delete[didx + 1] = msg
    /\ didx' = didx + 1

\* C16: when every prefix of the archive path is on the server already
\* (an earlier materialization of that path succeeded), materializing it
\* again issues no create command, leaves the folders alone and succeeds,
\* whichever create the server would refuse.
C16_MaterializeIdempotent ==
    [][\A msg \in 1..Len(mbox) :
          (/\ ImapIteration(msg)
           /\ hist'.last.made # "none"
           /\ \A k \in 1..Len(PathOf(msg)) : Prefix(PathOf(msg), k) \in remoteFolders)
          => /\ hist'.last.made = "ok"
             /\ hist'.last.creates = 0
             /\ hist'.last.walked = Len(PathOf(msg))
             /\ remoteFolders' = remoteFolders]_vars

\* C16 witness: the second iteration of a run materialized, without a
\* create, a path that the first iteration had created.
C16_Witness ==
    /\ didx = 2
    /\ hist.last.kind = "imap"
    /\ hist.last.made = "ok"
    /\ hist.last.creates = 0
    /\ PathOf(hist.last.msg) \in remoteFolders
    /\ PathOf(messages_to_delete[1]) = PathOf(hist.last.msg)

\* C17: a run that ends on the selection of the folder has tried the
\* quoted name too, that is, has issued two select commands.
C17_SelectRetriedBeforeFatal ==
    hist.exitPath = "select" => hist.selectTries = 2

\* C18: every iteration of a disposition loop is followed by a progress
\* line for its message.
C18_ProgressAfterEveryMessage ==
    hist.last.kind # "none" => hist.last.progress

\* C19: an --archive iteration whose create_imap_folder fails on the create
\* of a prefix stops there: that prefix and every longer one are not on the
\* server afterwards, the walk listed nothing beyond it, the failed create
\* was the last command of the walk, no append is issued, the message is
\* printed as not transferred and is not flagged.
C19_CreateFailureStops ==
    [][\A msg \in 1..Len(mbox) :
          (ImapIteration(msg) /\ hist'.last.made = "fail")
          => LET path == PathOf(msg)
                 k == hist'.last.walked
                 new == remoteFolders' \ remoteFolders
             IN  /\ k \in 1..Len(path)
                 /\ \A j \in k..Len(path) : ~FolderListed(remoteFolders', Prefix(path, j))
                 /\ new \subseteq {Prefix(path, j) : j \in 1..(k - 1)}
                 /\ remoteFolders \subseteq remoteFolders'
                 /\ hist'.last.creates = Cardinality(new) + 1
                 /\ ~hist'.last.appendTried
                 /\ appended' = appended
                 /\ ~hist'.last.actionOk
                 /\ hist'.last.reported
                 /\ msg \in hist'.reportedMsgs
                 /\ ~hist'.last.stored
                 /\ flagged' = flagged]_vars

\* C19 witness: the create of the first missing prefix failed, shorter
\* than the archive path, with nothing appended or flagged.
C19_Witness ==
    /\ hist.last.kind = "imap"
    /\ hist.last.made = "fail"
    /\ hist.last.creates = 1
    /\ hist.last.walked < Len(PathOf(hist.last.msg))
    /\ hist.last.reported
    /\ hist.last.msg \notin flagged

\* The path the archive of message msg is expected under: root, source
\* folder, and year and two-digit month when the Date header parses.
ExpectedPath(msg) ==
    LET d == parsedate_tz(RawDate(mbox[msg].hdr))
    IN  CASE d = <<2024, 3>> -> <<"Archive", "INBOX", "2024", "03">>
          [] d = <<2024, 2>> -> <<"Archive", "INBOX", "2024", "02">>
          [] d = <<>> -> <<"Archive", "INBOX">>
          [] OTHER -> <<"?">>

\* C20: every message appended to the archive server and every file
\* written to disk lies under root/source/YYYY/MM when its Date header
\* parses and under root/source when it does not.
C20_ArchivePathShape ==
    /\ \A e \in appended : e[1] = ExpectedPath(e[2])
    /\ \A x \in files : x.path = ExpectedPath(x.body)

\* C20 witness: one --archive run appended a message dated March 2024
\* under Archive/INBOX/2024/03 and a message without a parseable date
\* under Archive/INBOX.
C20_Witness ==
    /\ \E e \in appended : e[1] = <<"Archive", "INBOX", "2024", "03">>
    /\ \E e \in appended : e[1] = <<"Archive", "INBOX">>

\* C20, the --archive-to-disk case, reached as well.
C20_DiskCase ==
    /\ \E x \in files : x.path = <<"Archive", "INBOX", "2024", "03">>
    /\ \E x \in files : x.path = <<"Archive", "INBOX">>

\* C21: an --archive-to-disk iteration that wrote its file: with -e the
\* message is flagged and no copy to Trash is issued; without -e a copy is
\* issued, and the message is flagged exactly when the copy reports OK.
C21_DiskThenDeleteOrTrash ==
    [][(/\ pc = "dispose"
        /\ args.archive = "disk"
        /\ didx < Len(messages_to_delete)
        /\ didx' = didx + 1
        /\ ~hist'.last.reported)
       => LET msg == messages_to_delete[didx + 1]
          IN  /\ \E x \in files' : x.body = msg
              /\ IF args.expunge
                 THEN /\ hist'.last.stored
                      /\ flagged' = flagged \cup {msg}
                      /\ ~hist'.last.copied
                      /\ trash' = trash
                      /\ "copy" \notin hist'.issued
                 ELSE /\ "copy" \in hist'.issued
                      /\ \/ /\ hist'.last.copied
                            /\ hist'.last.stored
                            /\ trash' = trash \cup {msg}
                            /\ flagged' = flagged \cup {msg}
                         \/ /\ ~hist'.last.copied
                            /\ ~hist'.last.stored
                            /\ trash' = trash
                            /\ flagged' = flagged]_vars

\* C21 witness: without -e a file was written and the copy to Trash was
\* refused, so the message stays unflagged.
C21_Witness ==
    /\ hist.last.kind = "disk"
    /\ ~args.expunge
    /\ ~hist.last.reported
    /\ ~hist.last.copied
    /\ \E x \in files : x.body = hist.last.msg
    /\ hist.last.msg \notin flagged

\* C21, the -e case, reached as well: written and flagged, nothing copied.
C21_ExpungeCase ==
    /\ hist.last.kind = "disk"
    /\ args.expunge
    /\ ~hist.last.reported
    /\ hist.last.msg \in flagged

\* The ids of the groups of the given indices, group after group.
RECURSIVE PlanOf(_, _)
PlanOf(groups, indices) ==
    IF indices = <<>> THEN <<>>
    ELSE groups[Head(indices)].ids \o PlanOf(groups, Tail(indices))

\* A disposition loop iteration is taken in this step.
Iteration ==
    /\ pc = "dispose"
    /\ didx < Len(messages_to_delete)
    /\ didx' = didx + 1

\* C22: the plan of an accepted answer that names groups is the ids of
\* those groups in the order named (display order for 'a'), each group in
\* fetch order; the k-th iteration of the disposition loop acts on the k-th
\* message of the plan, and the plan does not change once it is resolved.
C22_PlanOrderKept ==
    [][/\ (pc' = "confirm" /\ hist'.accepted # <<>>)
            => messages_to_delete'
                 = PlanOf(subjects_list(filtered_msgs'), hist'.accepted)
       /\ Iteration => hist'.last.msg = messages_to_delete[didx + 1]
       /\ pc \in {"confirm", "dispose"} => messages_to_delete' = messages_to_delete]_vars

\* C22 witness: the answer '2,1' was carried out: both messages acted on,
\* the message of group 2 first.
C22_Witness ==
    /\ pc = "dispose"
    /\ hist.accepted = <<2, 1>>
    /\ didx = 2
    /\ messages_to_delete = <<2, 1>>
    /\ hist.last.msg = 1
    /\ hist.okMsgs = {1, 2}

\* C23: the resolved plan holds no message twice.
C23_PlanHasNoDuplicates ==
    pc = "confirm" =>
        \A i, j \in 1..Len(messages_to_delete) :
            messages_to_delete[i] = messages_to_delete[j] => i = j

\* C24: at the end of an --archive-to-disk run with -e that ran to its
\* last line, every message that was flagged or expunged has a file
\* holding its body.
C24_EveryDeletedMessageHasItsFile ==
    (/\ Ended
     /\ hist.exitPath = "completed"
     /\ args.archive = "disk"
     /\ args.expunge) =>
        \A m \in flagged \cup removed : \E x \in files : x.body = m

\* C25: logout is called at most once, no session command follows it, and
\* a closed session means the run is over.
C25_LogoutOnceAndLast ==
    /\ hist.logouts <= 1
    /\ ~hist.afterLogout
    /\ session = "closed" => (pc = "exit" /\ hist.logouts = 1)

\* C25 witness: a run that flagged a message and expunged has logged out
\* once at its end.
C25_Witness ==
    /\ Ended
    /\ hist.exitPath = "completed"
    /\ hist.logouts = 1
    /\ session = "closed"
    /\ {"select", "search", "fetch", "store", "expunge"} \subseteq hist.issued

====
